---- MODULE Spec2Model ----
(***************************************************************************)
(* RobotFrameworkInterpreter (robotframework_interactive/interpreter.py).  *)
(*                                                                         *)
(* A str is a sequence of lexical atoms ("***", " ", "\n", a statement's   *)
(* text, ...): concatenation is \o, the empty str is <<>>.  An AST node is *)
(* a record: a statement has the field tokens, a block or a section has    *)
(* the fields header and body.  Python's None is the record None.          *)
(***************************************************************************)
EXTENDS Integers, Sequences, FiniteSets, TLC

\* Number of evaluate calls of one session that the model explores.
MaxEvals == 2

VARIABLES
    doc_parts,          \* self._doc_parts: section name -> section ast or None
    last_section_name,  \* self._last_section_name
    last_block_mode,    \* self._last_block_mode
    sys_stdout,         \* sys.__stdout__
    sys_stderr,         \* sys.__stderr__
    namespace,          \* EXECUTION_CONTEXTS.current.namespace
    on_stderr,          \* the chunks self.on_stderr received during the last call
    pc,                 \* position of the worker inside evaluate ("idle" outside)
    frame,              \* the locals of the evaluate call in progress
    ret,                \* the value the last evaluate call returned
    text_ret,           \* the value the last compute_evaluate_text call returned
    executed,           \* history: the statements run_test_body ran, in order
    calls,              \* history: the number of evaluate calls started
    next_id,            \* history: the number of the next statement submitted
    pre,                \* history: self as it was when the last call started
    last_model,         \* history: the sections the last call parsed
    bare_only,          \* history: every call so far submitted a bare statement
    entry               \* history: the argument of the last call, and the
                        \* namespace and the statements run when it started

\* What the calls leave alone once they have started.
history == <<calls, next_id, pre, last_model, bare_only, entry>>

vars == <<doc_parts, last_section_name, last_block_mode, sys_stdout, sys_stderr,
          namespace, on_stderr, pc, frame, ret, text_ret, executed, calls,
          next_id, pre, last_model, bare_only, entry>>

None == [type |-> "None"]

-----------------------------------------------------------------------------
(* str helpers *)

Whitespace == {" ", "\t", "\n", "\r"}

RECURSIVE lstrip(_)
lstrip(s) ==
    IF s # <<>> /\ Head(s) \in Whitespace THEN lstrip(Tail(s)) ELSE s

RECURSIVE rstrip(_)
rstrip(s) ==
    IF s # <<>> /\ s[Len(s)] \in Whitespace
    THEN rstrip(SubSeq(s, 1, Len(s) - 1))
    ELSE s

strip(s) == rstrip(lstrip(s))

startswith(s, p) == Len(s) >= Len(p) /\ SubSeq(s, 1, Len(p)) = p

\* sep.join(parts)
RECURSIVE join(_, _)
join(sep, parts) ==
    IF parts = <<>> THEN <<>>
    ELSE IF Len(parts) = 1 THEN parts[1]
    ELSE parts[1] \o sep \o join(sep, Tail(parts))

\* s.rpartition(c) for a one-atom separator: <<before, separator, after>>
rpartition(s, c) ==
    IF \E i \in 1..Len(s) : s[i] = c
    THEN LET i == CHOOSE k \in 1..Len(s) :
                      s[k] = c /\ \A j \in (k + 1)..Len(s) : s[j] # c
         IN  <<SubSeq(s, 1, i - 1), <<c>>, SubSeq(s, i + 1, Len(s))>>
    ELSE <<<<>>, <<>>, s>>

\* s.splitlines(keepends=True)
RECURSIVE splitlines(_)
splitlines(s) ==
    IF s = <<>> THEN <<>>
    ELSE IF \E i \in 1..Len(s) : s[i] = "\n"
    THEN LET i == CHOOSE k \in 1..Len(s) :
                      s[k] = "\n" /\ \A j \in 1..(k - 1) : s[j] # "\n"
         IN  <<SubSeq(s, 1, i)>> \o splitlines(SubSeq(s, i + 1, Len(s)))
    ELSE <<s>>

-----------------------------------------------------------------------------
(* AST nodes *)

hasattr(node, name) == name \in DOMAIN node

Token(type, value) == [type |-> type, value |-> value, lineno |-> 0, error |-> <<>>]

ErrorToken(type, value, lineno, error) ==
    [type |-> type, value |-> value, lineno |-> lineno, error |-> error]

Statement(type, id, tokens) == [type |-> type, id |-> id, tokens |-> tokens]

Block(type, header, body) == [type |-> type, header |-> header, body |-> body]

\* Mutant: the keywords are rendered after the test cases.
SectionNames_KeywordsLast ==
    <<"CommentSection", "SettingSection", "VariableSection", "TestCaseSection",
      "KeywordSection">>

SectionNames ==
    <<"CommentSection", "SettingSection", "VariableSection", "KeywordSection",
      "TestCaseSection">>

settings_section_name_to_block_mode ==
    [name \in {SectionNames[i] : i \in 1..Len(SectionNames)} |->
        CASE name = "SettingSection"  -> <<"***", " ", "Settings", " ", "***", "\n">>
          [] name = "VariableSection" -> <<"***", " ", "Variables", " ", "***", "\n">>
          [] name = "TestCaseSection" ->
                <<"***", " ", "Test Case", " ", "***", "\n",
                  "Default Task/Test", "\n", " ", " ", " ", " ">>
          [] name = "KeywordSection"  -> <<"***", " ", "Keyword", " ", "***", "\n">>
          [] name = "CommentSection"  -> <<"***", " ", "Comment", " ", "***", "\n">>]

-----------------------------------------------------------------------------
(* Rendering *)

RECURSIVE TokensText(_)
TokensText(tokens) ==
    IF tokens = <<>> THEN <<>> ELSE Head(tokens).value \o TokensText(Tail(tokens))

\* ast_to_code: the values of all the tokens of the tree, in document order.
RECURSIVE ast_to_code(_)
ast_to_code(node) ==
    IF hasattr(node, "tokens") THEN TokensText(node.tokens)
    ELSE LET RECURSIVE BodyText(_)
             BodyText(body) ==
                 IF body = <<>> THEN <<>>
                 ELSE ast_to_code(Head(body)) \o BodyText(Tail(body))
         IN  ast_to_code(node.header) \o BodyText(node.body)

\* sections.remove(name); sections.append(name)
MoveLast(sections, name) ==
    SelectSeq(sections, LAMBDA s : s # name) \o <<name>>

RenderOrder(last) == IF last # "" THEN MoveLast(SectionNames, last) ELSE SectionNames

RECURSIVE RenderParts(_, _)
RenderParts(dp, sections) ==
    IF sections = <<>> THEN <<>>
    ELSE LET part     == Head(sections)
             as_code  == IF dp[part] # None THEN strip(ast_to_code(dp[part])) ELSE <<>>
         IN  (IF as_code # <<>> THEN <<as_code>> ELSE <<>>)
                 \o RenderParts(dp, Tail(sections))

compute_full_doc(dp, last) ==
    strip(join(<<"\n">>, RenderParts(dp, RenderOrder(last))))

full_doc == compute_full_doc(doc_parts, "")

-----------------------------------------------------------------------------
(* compute_evaluate_text *)

\* The fields of self that compute_evaluate_text reads.
Self ==
    [doc_parts |-> doc_parts, last_section_name |-> last_section_name,
     last_block_mode |-> last_block_mode]

RECURSIVE LeadingWhitespace(_)
LeadingWhitespace(line) ==
    IF line # <<>> /\ Head(line) \in {"\t", " "}
    THEN <<Head(line)>> \o LeadingWhitespace(Tail(line))
    ELSE <<>>

compute_evaluate_text(self, code, target_type) ==
    IF target_type = "completions"
    THEN IF startswith(strip(code), <<"***">>)
         THEN LET prefix == compute_full_doc(self.doc_parts, "") \o <<"\n">>
              IN  [prefix |-> prefix, full_code |-> prefix \o code]
         ELSE LET name        == self.last_section_name
                  has_section == self.doc_parts[name] # None
              IN  IF has_section
                  THEN LET prefix    == compute_full_doc(self.doc_parts, name)
                           parts     == rpartition(prefix, "\n")
                           indent    == LeadingWhitespace(parts[3])
                           indented  == parts[1] \o parts[2] \o parts[3]
                                            \o <<"\n">> \o indent
                       IN  IF parts[2] # <<>>
                           THEN [prefix |-> indented, full_code |-> indented \o code]
                           ELSE [prefix |-> prefix,
                                 full_code |-> prefix \o <<"\n">> \o code]
                  ELSE LET prefix == compute_full_doc(self.doc_parts, "")
                                         \o <<"\n">> \o self.last_block_mode
                       IN  [prefix |-> prefix, full_code |-> prefix \o code]
    ELSE IF ~startswith(strip(code), <<"***">>)
         THEN [prefix |-> self.last_block_mode,
               full_code |-> self.last_block_mode \o code]
         ELSE [prefix |-> <<>>, full_code |-> code]

-----------------------------------------------------------------------------
(* get_model: the trees the parser builds.  The parser keeps every          *)
(* character of its input in some token (data_only=False), so the text of   *)
(* a tree is the text it was parsed from.  The statements of the n-th       *)
(* submitted fragment carry n in their text, which tells them apart.        *)

Abbrev(section_name) ==
    CASE section_name = "CommentSection"  -> "comment"
      [] section_name = "SettingSection"  -> "import"
      [] section_name = "VariableSection" -> "var"
      [] section_name = "KeywordSection"  -> "kw"
      [] section_name = "TestCaseSection" -> "call"

\* The text of statement number n of a section of the given kind.
StmtText(section_name, n) == Abbrev(section_name) \o ToString(n)

Indent == <<" ", " ", " ", " ">>

\* The last token of a line: "none" no EOL token, "empty" EOL with value "",
\* "nl" EOL with value "\n".
Eol(kind) ==
    CASE kind = "none"  -> <<>>
      [] kind = "empty" -> <<Token("EOL", <<>>)>>
      [] kind = "nl"    -> <<Token("EOL", <<"\n">>)>>

SectionHeader(word) ==
    Statement("SectionHeader", 0,
              <<Token("HEADER", <<"***", " ", word, " ", "***">>)>> \o Eol("nl"))

EmptyLine == Statement("EmptyLine", 0, Eol("nl"))

Line(type, section_name, n, lead, eol) ==
    Statement(type, n,
              (IF lead = <<>> THEN <<>> ELSE <<Token("SEPARATOR", lead)>>)
                  \o <<Token("DATA", <<StmtText(section_name, n)>>)>> \o Eol(eol))

KeywordCall(n, eol) == Line("KeywordCall", "TestCaseSection", n, Indent, eol)

TestCase(name, body) ==
    Block("TestCase",
          Statement("TestCaseName", 0, <<Token("TESTCASE NAME", <<name>>)>> \o Eol("nl")),
          body)

Keyword(n, body) ==
    Block("Keyword", Line("KeywordName", "KeywordSection", n, <<>>, "nl"), body)

\* An Error statement: the tokens the lexer marked, each with its line and message.
ErrorStatement(n, marks) ==
    Statement("Error", n,
              [i \in 1..Len(marks) |->
                  ErrorToken(marks[i], <<"bad" \o ToString(n)>>, i + 1,
                             <<"message " \o ToString(i)>>)] \o Eol("nl"))

\* An Error statement in the body of a test.
IndentedError(n, marks) ==
    [ErrorStatement(n, marks) EXCEPT !.tokens = <<Token("SEPARATOR", Indent)>> \o @]

TestCaseSection(body)  == Block("TestCaseSection", SectionHeader("Test Case"), body)
SettingSection(body)   == Block("SettingSection", SectionHeader("Settings"), body)
VariableSection(body)  == Block("VariableSection", SectionHeader("Variables"), body)
KeywordSection(body)   == Block("KeywordSection", SectionHeader("Keyword"), body)
CommentSection(body)   == Block("CommentSection", SectionHeader("Comment"), body)

Import(n, eol)   == Line("LibraryImport", "SettingSection", n, <<>>, eol)
Variable(n, eol) == Line("Variable", "VariableSection", n, <<>>, eol)
Comment(n, eol)  == Line("Comment", "CommentSection", n, <<>>, eol)

\* A bare statement, parsed behind the default test header.
BareTree(n, eol) ==
    <<TestCaseSection(<<TestCase("Default Task/Test", <<KeywordCall(n, eol)>>)>>)>>

\* The trees of the fragments whose first statement is number n.  bare: the
\* code submitted is the text without the block mode that evaluate put first.
Fragments(n) ==
      { [bare |-> TRUE, sections |-> BareTree(n, eol)] : eol \in {"none", "empty", "nl"} }
 \cup { [bare |-> TRUE,
         sections |-> <<TestCaseSection(<<TestCase("Default Task/Test",
                          <<IndentedError(n, <<"ERROR", "FATAL ERROR">>)>>)>>)>>] }
 \cup { [bare |-> TRUE,
         sections |-> <<TestCaseSection(<<TestCase("Default Task/Test",
                          <<IndentedError(n, <<"ERROR", "ERROR">>),
                            IndentedError(n + 1, <<"ERROR", "ERROR", "FATAL ERROR">>)>>)>>)>>] }
 \cup { [bare |-> FALSE, sections |-> s] : s \in {
          <<SettingSection(<<Import(n, "nl"), Import(n + 1, "empty")>>)>>,
          <<VariableSection(<<Variable(n, "nl")>>)>>,
          <<KeywordSection(<<Keyword(n, <<Line("KeywordCall", "KeywordSection",
                                               n + 1, Indent, "empty")>>)>>)>>,
          <<CommentSection(<<Comment(n, "empty")>>)>>,
          <<TestCaseSection(<<TestCase("T", <<KeywordCall(n, "nl")>>)>>),
            KeywordSection(<<Keyword(n + 1, <<Line("KeywordCall", "KeywordSection",
                                                   n + 2, Indent, "nl")>>)>>),
            VariableSection(<<Variable(n + 3, "nl")>>),
            SettingSection(<<Import(n + 4, "empty")>>)>>,
          <<SettingSection(<<Import(n, "nl")>>),
            TestCaseSection(<<EmptyLine, TestCase("T", <<KeywordCall(n + 1, "empty")>>)>>)>>,
          <<TestCaseSection(<<EmptyLine>>)>>,
          <<TestCaseSection(<<TestCase("T", <<>>)>>)>>,
          <<TestCaseSection(<<TestCase("T", <<KeywordCall(n, "nl")>>),
                              TestCase("U", <<KeywordCall(n + 1, "nl")>>)>>)>>,
          <<SettingSection(<<Import(n, "nl"), ErrorStatement(n + 1, <<"ERROR", "ERROR">>)>>)>>
        } }

RECURSIVE TreeText(_)
TreeText(sections) ==
    IF sections = <<>> THEN <<>>
    ELSE ast_to_code(Head(sections)) \o TreeText(Tail(sections))

DefaultBlockMode == settings_section_name_to_block_mode["TestCaseSection"]

\* The code of a fragment, as the user typed it.
CodeOf(f) ==
    LET text == TreeText(f.sections)
    IN  IF f.bare THEN SubSeq(text, Len(DefaultBlockMode) + 1, Len(text)) ELSE text

\* A header marker and nothing else: the parser finds no section in it.
NoSectionCode == <<"***">>

\* The number of statements of a tree (the numbers it uses).
RECURSIVE Ids(_)
Ids(node) ==
    IF hasattr(node, "tokens") THEN (IF node.id = 0 THEN {} ELSE {node.id})
    ELSE Ids(node.header) \cup UNION {Ids(node.body[i]) : i \in 1..Len(node.body)}

TreeIds(sections) == UNION {Ids(sections[i]) : i \in 1..Len(sections)}

\* The largest number a statement of the session can get.
MaxId ==
    LET sizes == {Cardinality(TreeIds(f.sections)) : f \in Fragments(1)}
    IN  MaxEvals * (CHOOSE k \in sizes : \A j \in sizes : j <= k) + 1

\* For each first statement number: every fragment's code, the text that is
\* parsed for it, and the tree the parser builds of that text.
ParseTable ==
    [n \in 1..MaxId |->
        { [code |-> CodeOf(f), text |-> TreeText(f.sections), sections |-> f.sections] :
            f \in Fragments(n) }]

Codes(n) == {e.code : e \in ParseTable[n]} \cup {NoSectionCode}

\* get_model(StringIO(code), ...).sections: the trees the parser may build of
\* the text (which one is the parser's business), no section for any other text.
get_model(text, n) ==
    LET trees == {e.sections : e \in {g \in ParseTable[n] : g.text = text}}
    IN  IF trees = {} THEN {<<>>} ELSE trees

-----------------------------------------------------------------------------
(* _CustomErrorReporter *)

NoExc == [type |-> "", text |-> <<>>]

Exception(type, text) == [type |-> type, text |-> text]

\* node.get_tokens(type)
get_tokens(node, type) == SelectSeq(node.tokens, LAMBDA t : t.type = type)

\* node.get_token(type): the first one, or None
get_token(node, type) ==
    IF get_tokens(node, type) = <<>> THEN None ELSE get_tokens(node, type)[1]

format_message(source, token) ==
    <<"Error in file '">> \o source
        \o <<"' on line ", ToString(token.lineno), ": ">> \o token.error

\* Mutant: only a fatal marker raises.
visit_Error_FatalOnly(source, node) ==
    LET fatal == get_token(node, "FATAL ERROR")
    IN  IF fatal # None
        THEN Exception("DataError", format_message(source, fatal))
        ELSE NoExc

visit_Error(source, node) ==
    LET fatal  == get_token(node, "FATAL ERROR")
        errors == get_tokens(node, "ERROR")
    IN  IF fatal # None
        THEN Exception("DataError", format_message(source, fatal))
        ELSE IF errors # <<>>
        THEN Exception("DataError", format_message(source, errors[1]))
        ELSE NoExc

\* Mutant: the visit of a block goes to its header and leaves its body out.
RECURSIVE visit_NoDescent(_, _)
visit_NoDescent(source, node) ==
    IF node.type = "Error" THEN visit_Error(source, node)
    ELSE IF hasattr(node, "tokens") THEN NoExc
    ELSE visit_NoDescent(source, node.header)

\* Mutant: the children of a node are visited last to first.
RECURSIVE visit_LastFirst(_, _)
visit_LastFirst(source, node) ==
    IF node.type = "Error" THEN visit_Error(source, node)
    ELSE IF hasattr(node, "tokens") THEN NoExc
    ELSE LET RECURSIVE VisitAll(_)
             VisitAll(nodes) ==
                 IF nodes = <<>> THEN NoExc
                 ELSE LET e == visit_LastFirst(source, nodes[Len(nodes)])
                      IN  IF e # NoExc THEN e
                          ELSE VisitAll(SubSeq(nodes, 1, Len(nodes) - 1))
         IN  VisitAll(<<node.header>> \o node.body)

\* NodeVisitor.visit: depth first, a node's header before its body; the
\* exception of the first node that raises, NoExc when none does.
RECURSIVE visit(_, _)
visit(source, node) ==
    IF node.type = "Error" THEN visit_Error(source, node)
    ELSE IF hasattr(node, "tokens") THEN NoExc
    ELSE LET RECURSIVE VisitAll(_)
             VisitAll(nodes) ==
                 IF nodes = <<>> THEN NoExc
                 ELSE LET e == visit(source, Head(nodes))
                      IN  IF e # NoExc THEN e ELSE VisitAll(Tail(nodes))
         IN  VisitAll(<<node.header>> \o node.body)

RECURSIVE visit_model(_, _)
visit_model(source, sections) ==
    IF sections = <<>> THEN NoExc
    ELSE LET e == visit(source, Head(sections))
         IN  IF e # NoExc THEN e ELSE visit_model(source, Tail(sections))

-----------------------------------------------------------------------------
(* SettingsBuilder, SuiteBuilder: what the new suite holds *)

\* The nodes of type node_type in the bodies of the sections of type section_type.
RECURSIVE Collect(_, _, _)
Collect(sections, section_type, node_type) ==
    IF sections = <<>> THEN <<>>
    ELSE (IF Head(sections).type = section_type
          THEN SelectSeq(Head(sections).body, LAMBDA x : x.type = node_type)
          ELSE <<>>) \o Collect(Tail(sections), section_type, node_type)

IdsOf(nodes) == [i \in 1..Len(nodes) |-> nodes[i].id]

\* The keyword calls of a test, in order.
TestBody(test) == IdsOf(SelectSeq(test.body, LAMBDA x : x.type = "KeywordCall"))

Tests(sections) ==
    LET tests == Collect(sections, "TestCaseSection", "TestCase")
    IN  [i \in 1..Len(tests) |-> TestBody(tests[i])]

\* Mutant: the suite is built of the whole document, the new sections last.
build_suite_WholeDocument(sections) ==
    LET old == doc_parts["TestCaseSection"]
    IN  [imports   |-> IdsOf(Collect(sections, "SettingSection", "LibraryImport")),
         variables |-> IdsOf(Collect(sections, "VariableSection", "Variable")),
         keywords  |-> LET kws == Collect(sections, "KeywordSection", "Keyword")
                       IN  [i \in 1..Len(kws) |-> kws[i].header.id],
         tests     |-> (IF old = None THEN <<>> ELSE Tests(<<old>>)) \o Tests(sections)]

build_suite(sections) ==
    [imports   |-> IdsOf(Collect(sections, "SettingSection", "LibraryImport")),
     variables |-> IdsOf(Collect(sections, "VariableSection", "Variable")),
     keywords  |-> LET kws == Collect(sections, "KeywordSection", "Keyword")
                   IN  [i \in 1..Len(kws) |-> kws[i].header.id],
     tests     |-> Tests(sections)]

EmptySuite == [imports |-> <<>>, variables |-> <<>>, keywords |-> <<>>, tests |-> <<>>]

-----------------------------------------------------------------------------
(* The merge of the parsed sections into self._doc_parts *)

IndexError == Exception("IndexError", <<"list index out of range">>)

AttributeError(node, name) ==
    Exception("AttributeError",
              <<"'", node.type, "' object has no attribute '", name, "'">>)

\* Make sure that there is a "\n" as the last EOL.
FixTokens(stmt) ==
    LET tokens     == stmt.tokens
        last_token == tokens[Len(tokens)]
    IN  IF last_token.type = "EOL" /\ last_token.value = <<>>
        THEN [stmt EXCEPT !.tokens[Len(tokens)].value = <<"\n">>]
        ELSE [stmt EXCEPT !.tokens = tokens \o <<Token("EOL", <<"\n">>)>>]

\* last_in_body = current.body[-1], down to the statement with tokens, whose
\* tokens are then fixed: [exc, node], node being current afterwards.
RECURSIVE FixLast(_)
FixLast(current) ==
    IF ~hasattr(current, "body")
    THEN [exc |-> AttributeError(current, "body"), node |-> current]
    ELSE IF current.body = <<>>
    THEN [exc |-> IndexError, node |-> current]
    ELSE LET n    == Len(current.body)
             last == current.body[n]
         IN  IF hasattr(last, "tokens")
             THEN IF last.tokens = <<>>
                  THEN [exc |-> IndexError, node |-> current]
                  ELSE [exc |-> NoExc,
                        node |-> [current EXCEPT !.body[n] = FixTokens(last)]]
             ELSE LET r == FixLast(last)
                  IN  [exc |-> r.exc, node |-> [current EXCEPT !.body[n] = r.node]]

\* for test_case in section.body: current.body.extend(test_case.body)
RECURSIVE ExtendWithTests(_, _)
ExtendWithTests(current, test_cases) ==
    IF test_cases = <<>> THEN [exc |-> NoExc, node |-> current]
    ELSE IF ~hasattr(current, "body")
    THEN [exc |-> AttributeError(current, "body"), node |-> current]
    ELSE IF ~hasattr(Head(test_cases), "body")
    THEN [exc |-> AttributeError(Head(test_cases), "body"), node |-> current]
    ELSE ExtendWithTests([current EXCEPT !.body = @ \o Head(test_cases).body],
                         Tail(test_cases))

\* Mutant: the parsed section takes the place of the accumulator.
MergeSection_Replace(dp, section) ==
    LET section_name == section.type
    IN  IF section.body = <<>> \/ section_name \notin DOMAIN dp
        THEN [exc |-> NoExc, doc_parts |-> dp]
        ELSE LET f == FixLast(section)
             IN  [exc |-> f.exc, doc_parts |-> [dp EXCEPT ![section_name] = f.node]]

\* Mutant: the test cases of a new section are added to the accumulator as
\* the bodies of the other sections are.
MergeSection_NoCollapse(dp, section) ==
    LET section_name == section.type
    IN  IF section.body = <<>> \/ section_name \notin DOMAIN dp
        THEN [exc |-> NoExc, doc_parts |-> dp]
        ELSE LET current == dp[section_name]
                 f == FixLast(IF current = None THEN section
                              ELSE [current EXCEPT !.body = @ \o section.body])
             IN  [exc |-> f.exc, doc_parts |-> [dp EXCEPT ![section_name] = f.node]]

\* One round of the loop over model.sections: [exc, doc_parts].
MergeSection(dp, section) ==
    LET section_name == section.type
    IN  IF section.body = <<>> \/ section_name \notin DOMAIN dp
        THEN [exc |-> NoExc, doc_parts |-> dp]
        ELSE LET current == dp[section_name]
             IN  IF current = None
                 THEN LET f == FixLast(section)
                      IN  [exc |-> f.exc,
                           doc_parts |-> [dp EXCEPT ![section_name] = f.node]]
                 ELSE IF current.type = "TestCaseSection"
                 THEN LET n == Len(current.body)
                          e == ExtendWithTests(current.body[n], section.body)
                          f == IF e.exc = NoExc THEN FixLast(e.node) ELSE e
                      IN  [exc |-> f.exc,
                           doc_parts |-> [dp EXCEPT ![section_name].body[n] = f.node]]
                 ELSE LET f == FixLast([current EXCEPT !.body = @ \o section.body])
                      IN  [exc |-> f.exc,
                           doc_parts |-> [dp EXCEPT ![section_name] = f.node]]

\* The loop over model.sections, which the first exception leaves.
RECURSIVE Merge(_, _)
Merge(dp, sections) ==
    IF sections = <<>> THEN [exc |-> NoExc, doc_parts |-> dp]
    ELSE LET r == MergeSection(dp, Head(sections))
         IN  IF r.exc # NoExc THEN r ELSE Merge(r.doc_parts, Tail(sections))

-----------------------------------------------------------------------------
(* The session *)

EmptyFrame ==
    [code |-> <<>>, model |-> <<>>, original_stdout |-> "", original_stderr |-> "",
     new_suite |-> EmptySuite, exc |-> NoExc, result |-> None]

ActionResult(success, message) ==
    [success |-> success, message |-> message, result |-> None]

\* Mutant: the test content runs before what the settings builder loaded is handled.
Stage_TestsFirst(suite) ==
    IF suite.tests # <<>> THEN "tests"
    ELSE IF suite.imports # <<>> THEN "imports"
    ELSE IF suite.variables # <<>> THEN "variables"
    ELSE IF suite.keywords # <<>> THEN "keywords"
    ELSE "merge"

\* The part of _evaluate that a loaded suite is at: the first one with work left.
Stage(suite) ==
    IF suite.imports # <<>> THEN "imports"
    ELSE IF suite.variables # <<>> THEN "variables"
    ELSE IF suite.keywords # <<>> THEN "keywords"
    ELSE IF suite.tests # <<>> THEN "tests"
    ELSE "merge"

\* traceback.format_exc()
format_exc(e) ==
    <<"Traceback (most recent call last):", "\n", e.type, ": ">> \o e.text \o <<"\n">>

\* The codes compute_evaluate_text is asked about.
QueryCodes ==
    { <<"Log">>,
      <<" ", "***", " ", "Settings", " ", "***", "\n", "Library">> }

Init ==
    /\ doc_parts = [name \in {SectionNames[i] : i \in 1..Len(SectionNames)} |-> None]
    /\ last_section_name = "TestCaseSection"
    /\ last_block_mode = settings_section_name_to_block_mode["TestCaseSection"]
    /\ sys_stdout = "console stdout"
    /\ sys_stderr = "console stderr"
    /\ namespace = [imports |-> <<>>, variables |-> <<>>, keywords |-> <<>>]
    /\ on_stderr = <<>>
    /\ pc = "idle"
    /\ frame = EmptyFrame
    /\ ret = None
    /\ text_ret = None
    /\ executed = <<>>
    /\ calls = 0
    /\ next_id = 1
    /\ pre = Self
    /\ last_model = <<>>
    /\ bare_only = TRUE
    /\ entry = [code |-> <<>>, namespace |-> namespace, executed |-> executed]

\* Mutant: a driver that calls evaluate from a thread of its own, whatever the
\* worker is doing.
InMainLoop_AnyThread == TRUE

\* The worker is inside self._on_main_loop(self): the driver has control,
\* and calls evaluate there, on the worker, waiting for what it returns.
InMainLoop == pc = "idle"

\* Mutant: the block mode is put before every code, a section header or not.
EvaluateBegin_AlwaysBlockMode(code) ==
    /\ InMainLoop
    /\ calls < MaxEvals
    /\ LET text == last_block_mode \o code
       IN  \E model \in get_model(text, next_id) :
             /\ frame' = [EmptyFrame EXCEPT
                            !.code = text, !.model = model,
                            !.original_stdout = sys_stdout,
                            !.original_stderr = sys_stderr,
                            !.result =
                                IF model = <<>>
                                THEN ActionResult(FALSE,
                                        <<"Error while evaluating: ",
                                          "Unable to interpret: no sections found.">>)
                                ELSE None]
             /\ on_stderr' = IF model = <<>>
                             THEN <<<<"Unable to interpret: no sections found.">>>>
                             ELSE <<>>
             /\ pc' = IF model = <<>> THEN "finally" ELSE "validate"
             /\ next_id' = next_id + Cardinality(TreeIds(model))
             /\ last_model' = model
    /\ sys_stdout' = "_stdout"
    /\ sys_stderr' = "_stderr"
    /\ calls' = calls + 1
    /\ pre' = Self
    /\ entry' = [code |-> code, namespace |-> namespace, executed |-> executed]
    /\ bare_only' = (bare_only /\ ~startswith(strip(code), <<"***">>))
    /\ ret' = None
    /\ text_ret' = None
    /\ UNCHANGED <<doc_parts, last_section_name, last_block_mode, namespace, executed>>

\* evaluate, to the parsed model: the streams are hijacked, the code gets its
\* block mode and is parsed; a model without sections ends the call.
EvaluateBegin(code) ==
    /\ InMainLoop
    /\ calls < MaxEvals
    /\ LET text == IF ~startswith(strip(code), <<"***">>)
                   THEN last_block_mode \o code
                   ELSE code
       IN  \E model \in get_model(text, next_id) :
             /\ frame' = [EmptyFrame EXCEPT
                            !.code = text, !.model = model,
                            !.original_stdout = sys_stdout,
                            !.original_stderr = sys_stderr,
                            !.result =
                                IF model = <<>>
                                THEN ActionResult(FALSE,
                                        <<"Error while evaluating: ",
                                          "Unable to interpret: no sections found.">>)
                                ELSE None]
             /\ on_stderr' = IF model = <<>>
                             THEN <<<<"Unable to interpret: no sections found.">>>>
                             ELSE <<>>
             /\ pc' = IF model = <<>> THEN "finally" ELSE "validate"
             /\ next_id' = next_id + Cardinality(TreeIds(model))
             /\ last_model' = model
    /\ sys_stdout' = "_stdout"
    /\ sys_stderr' = "_stderr"
    /\ calls' = calls + 1
    /\ pre' = Self
    /\ entry' = [code |-> code, namespace |-> namespace, executed |-> executed]
    /\ bare_only' = (bare_only /\ ~startswith(strip(code), <<"***">>))
    /\ ret' = None
    /\ text_ret' = None
    /\ UNCHANGED <<doc_parts, last_section_name, last_block_mode, namespace, executed>>

\* self._settings_section_name_to_block_mode.get(name)
BlockModeOf(name) ==
    IF name \in DOMAIN settings_section_name_to_block_mode
    THEN settings_section_name_to_block_mode[name]
    ELSE None

\* Mutant: the block mode follows the last section of the fragment, as the
\* lines that are commented out did.
Validate_TracksLastSection ==
    /\ pc = "validate"
    /\ LET e          == visit_model(frame.code, frame.model)
           name       == frame.model[Len(frame.model)].type
           block_mode == BlockModeOf(name)
           suite      == build_suite(frame.model)
       IN  IF e # NoExc
           THEN /\ frame' = [frame EXCEPT !.exc = e]
                /\ pc' = "except"
                /\ UNCHANGED <<last_section_name, last_block_mode, on_stderr>>
           ELSE /\ IF block_mode = None
                   THEN /\ on_stderr' = Append(on_stderr,
                                          <<"Unable to find block mode for: ", name>>)
                        /\ UNCHANGED <<last_section_name, last_block_mode>>
                   ELSE /\ last_block_mode' = block_mode
                        /\ last_section_name' = name
                        /\ UNCHANGED on_stderr
                /\ frame' = [frame EXCEPT !.new_suite = suite]
                /\ pc' = Stage(suite)
    /\ UNCHANGED <<doc_parts, sys_stdout, sys_stderr, namespace, ret, text_ret,
                   executed, history>>

\* _CustomErrorReporter(code).visit(model), then the block mode and the new suite.
Validate ==
    /\ pc = "validate"
    /\ LET e          == visit_model(frame.code, frame.model)
           name       == "TestCaseSection"
           block_mode == BlockModeOf(name)
           suite      == build_suite(frame.model)
       IN  IF e # NoExc
           THEN /\ frame' = [frame EXCEPT !.exc = e]
                /\ pc' = "except"
                /\ UNCHANGED <<last_section_name, last_block_mode, on_stderr>>
           ELSE /\ IF block_mode = None
                   THEN /\ on_stderr' = Append(on_stderr,
                                          <<"Unable to find block mode for: ", name>>)
                        /\ UNCHANGED <<last_section_name, last_block_mode>>
                   ELSE /\ last_block_mode' = block_mode
                        /\ last_section_name' = name
                        /\ UNCHANGED on_stderr
                /\ frame' = [frame EXCEPT !.new_suite = suite]
                /\ pc' = Stage(suite)
    /\ UNCHANGED <<doc_parts, sys_stdout, sys_stderr, namespace, ret, text_ret,
                   executed, history>>

\* The suite without the head of one of its lists.
Rest(suite, field) == [suite EXCEPT ![field] = Tail(@)]

\* Mutant: an import that fails takes the imports of the fragment done
\* before it out of the namespace.
DoImport_Rollback ==
    /\ pc = "imports"
    /\ \E ok \in BOOLEAN :
         IF ok
         THEN /\ namespace' = [namespace EXCEPT
                                 !.imports = Append(@, Head(frame.new_suite.imports))]
              /\ frame' = [frame EXCEPT !.new_suite = Rest(@, "imports")]
              /\ pc' = Stage(Rest(frame.new_suite, "imports"))
         ELSE /\ frame' = [frame EXCEPT
                             !.exc = Exception("DataError", <<"Importing failed.">>)]
              /\ pc' = "except"
              /\ namespace' = [namespace EXCEPT
                                 !.imports = SelectSeq(@, LAMBDA i :
                                                 i \notin TreeIds(frame.model))]
    /\ UNCHANGED <<doc_parts, last_section_name, last_block_mode, sys_stdout,
                   sys_stderr, on_stderr, ret, text_ret, executed, history>>

\* namespace._import(new_import), which may raise.
DoImport ==
    /\ pc = "imports"
    /\ \E ok \in BOOLEAN :
         IF ok
         THEN /\ namespace' = [namespace EXCEPT
                                 !.imports = Append(@, Head(frame.new_suite.imports))]
              /\ frame' = [frame EXCEPT !.new_suite = Rest(@, "imports")]
              /\ pc' = Stage(Rest(frame.new_suite, "imports"))
         ELSE /\ frame' = [frame EXCEPT
                             !.exc = Exception("DataError", <<"Importing failed.">>)]
              /\ pc' = "except"
              /\ UNCHANGED namespace
    /\ UNCHANGED <<doc_parts, last_section_name, last_block_mode, sys_stdout,
                   sys_stderr, on_stderr, ret, text_ret, executed, history>>

\* Mutant: the variable table of the fragment takes the place of the variables set.
SetVariables_Replace ==
    /\ pc = "variables"
    /\ \E ok \in BOOLEAN :
         IF ok
         THEN /\ namespace' = [namespace EXCEPT !.variables = frame.new_suite.variables]
              /\ frame' = [frame EXCEPT !.new_suite.variables = <<>>]
              /\ pc' = Stage([frame.new_suite EXCEPT !.variables = <<>>])
         ELSE /\ frame' = [frame EXCEPT
                             !.exc = Exception("DataError", <<"Setting variable failed.">>)]
              /\ pc' = "except"
              /\ UNCHANGED namespace
    /\ UNCHANGED <<doc_parts, last_section_name, last_block_mode, sys_stdout,
                   sys_stderr, on_stderr, ret, text_ret, executed, history>>

\* namespace.variables.set_from_variable_table(new_suite.resource.variables)
SetVariables ==
    /\ pc = "variables"
    /\ \E ok \in BOOLEAN :
         IF ok
         THEN /\ namespace' = [namespace EXCEPT
                                 !.variables = @ \o frame.new_suite.variables]
              /\ frame' = [frame EXCEPT !.new_suite.variables = <<>>]
              /\ pc' = Stage([frame.new_suite EXCEPT !.variables = <<>>])
         ELSE /\ frame' = [frame EXCEPT
                             !.exc = Exception("DataError", <<"Setting variable failed.">>)]
              /\ pc' = "except"
              /\ UNCHANGED namespace
    /\ UNCHANGED <<doc_parts, last_section_name, last_block_mode, sys_stdout,
                   sys_stderr, on_stderr, ret, text_ret, executed, history>>

\* user_keywords._create_handler(kw), which may raise; handlers.add(handler, embedded)
AddKeyword ==
    /\ pc = "keywords"
    /\ \E ok \in BOOLEAN :
         IF ok
         THEN /\ namespace' = [namespace EXCEPT
                                 !.keywords = Append(@, Head(frame.new_suite.keywords))]
              /\ frame' = [frame EXCEPT !.new_suite = Rest(@, "keywords")]
              /\ pc' = Stage(Rest(frame.new_suite, "keywords"))
         ELSE /\ frame' = [frame EXCEPT
                             !.exc = Exception("DataError", <<"Creating keyword failed.">>)]
              /\ pc' = "except"
              /\ UNCHANGED namespace
    /\ UNCHANGED <<doc_parts, last_section_name, last_block_mode, sys_stdout,
                   sys_stderr, on_stderr, ret, text_ret, executed, history>>

\* facade.run_test_body(context, test): the calls of the body run in order;
\* failed = 0 when all pass, else the number of the call that raises.
RunTestBody ==
    /\ pc = "tests"
    /\ LET body == Head(frame.new_suite.tests)
       IN  \E failed \in 0..Len(body) :
             IF failed = 0
             THEN /\ executed' = executed \o body
                  /\ frame' = [frame EXCEPT !.new_suite = Rest(@, "tests")]
                  /\ pc' = Stage(Rest(frame.new_suite, "tests"))
             ELSE /\ executed' = executed \o SubSeq(body, 1, failed)
                  /\ frame' = [frame EXCEPT
                                 !.exc = Exception("ExecutionFailed", <<"Keyword failed.">>)]
                  /\ pc' = "except"
    /\ UNCHANGED <<doc_parts, last_section_name, last_block_mode, sys_stdout,
                   sys_stderr, namespace, on_stderr, ret, text_ret, history>>

\* The update of self._doc_parts, and the return of _evaluate.
MergeDocument ==
    /\ pc = "merge"
    /\ LET r == Merge(doc_parts, frame.model)
       IN  /\ doc_parts' = r.doc_parts
           /\ IF r.exc # NoExc
              THEN /\ frame' = [frame EXCEPT !.exc = r.exc]
                   /\ pc' = "except"
              ELSE /\ frame' = [frame EXCEPT !.result = ActionResult(TRUE, None)]
                   /\ pc' = "finally"
    /\ UNCHANGED <<last_section_name, last_block_mode, sys_stdout, sys_stderr,
                   namespace, on_stderr, ret, text_ret, executed, history>>

\* The classes of the exceptions that the parts of _evaluate raise; all of
\* them derive from Exception.
ExceptionClasses == {"DataError", "ExecutionFailed", "IndexError", "AttributeError"}

\* Mutant: except DataError as e
Handles_DataErrorOnly(e) == e.type = "DataError"

\* except Exception as e
Handles(e) == e.type \in ExceptionClasses

\* except Exception as e: the trace goes to on_stderr line by line; an
\* exception that no clause handles leaves evaluate through finally.
Except ==
    /\ pc = "except"
    /\ IF Handles(frame.exc)
       THEN /\ on_stderr' = on_stderr \o splitlines(format_exc(frame.exc))
            /\ frame' = [frame EXCEPT
                           !.result = ActionResult(FALSE,
                                         <<"Error while evaluating: ">> \o frame.exc.text)]
       ELSE /\ frame' = [frame EXCEPT !.result = [raised |-> frame.exc]]
            /\ UNCHANGED on_stderr
    /\ pc' = "finally"
    /\ UNCHANGED <<doc_parts, last_section_name, last_block_mode, sys_stdout,
                   sys_stderr, namespace, ret, text_ret, executed, history>>

\* Mutant: the streams are put back at the end of the try block, which an
\* exception does not reach.
Finally_RestoreOnSuccess ==
    /\ pc = "finally"
    /\ sys_stdout' = IF frame.exc = NoExc THEN frame.original_stdout ELSE sys_stdout
    /\ sys_stderr' = IF frame.exc = NoExc THEN frame.original_stderr ELSE sys_stderr
    /\ ret' = frame.result
    /\ frame' = EmptyFrame
    /\ pc' = "idle"
    /\ UNCHANGED <<doc_parts, last_section_name, last_block_mode, namespace,
                   on_stderr, text_ret, executed, history>>

\* finally: the streams are put back, and evaluate returns.
Finally ==
    /\ pc = "finally"
    /\ sys_stdout' = frame.original_stdout
    /\ sys_stderr' = frame.original_stderr
    /\ ret' = frame.result
    /\ frame' = EmptyFrame
    /\ pc' = "idle"
    /\ UNCHANGED <<doc_parts, last_section_name, last_block_mode, namespace,
                   on_stderr, text_ret, executed, history>>

\* Mutant: the prefix computed is kept as the block mode.
ComputeEvaluateText_Stores(code, target_type) ==
    /\ pc = "idle"
    /\ text_ret' = [code |-> code, target_type |-> target_type,
                    ret |-> compute_evaluate_text(Self, code, target_type)]
    /\ last_block_mode' = compute_evaluate_text(Self, code, target_type).prefix
    /\ UNCHANGED <<doc_parts, last_section_name, sys_stdout, sys_stderr, namespace,
                   on_stderr, pc, frame, ret, executed, history>>

\* compute_evaluate_text, called between two evaluate calls.
ComputeEvaluateText(code, target_type) ==
    /\ pc = "idle"
    /\ text_ret' = [code |-> code, target_type |-> target_type,
                    ret |-> compute_evaluate_text(Self, code, target_type)]
    /\ UNCHANGED <<doc_parts, last_section_name, last_block_mode, sys_stdout,
                   sys_stderr, namespace, on_stderr, pc, frame, ret, executed,
                   history>>

Evaluate == \E code \in Codes(next_id) : EvaluateBegin(code)

Query ==
    \E code \in QueryCodes, target_type \in {"evaluate", "completions"} :
        ComputeEvaluateText(code, target_type)

Next ==
    \/ Evaluate
    \/ Validate
    \/ DoImport
    \/ SetVariables
    \/ AddKeyword
    \/ RunTestBody
    \/ MergeDocument
    \/ Except
    \/ Finally
    \/ Query

Spec == Init /\ [][Next]_vars

-----------------------------------------------------------------------------
(* What the properties below speak of *)

\* The section kinds, in the order the document is to show them.
KindOrder ==
    <<"CommentSection", "SettingSection", "VariableSection", "KeywordSection",
      "TestCaseSection">>

Kinds == {KindOrder[r] : r \in 1..Len(KindOrder)}

HeaderWord(kind) ==
    CASE kind = "CommentSection"  -> "Comment"
      [] kind = "SettingSection"  -> "Settings"
      [] kind = "VariableSection" -> "Variables"
      [] kind = "KeywordSection"  -> "Keyword"
      [] kind = "TestCaseSection" -> "Test Case"

\* The atoms of a text that are a section header's word (number 0) or a
\* statement's text (its submission number), with the place of their kind in
\* KindOrder.
Items ==
    LET entries == {<<HeaderWord(KindOrder[r]), r, 0>> : r \in 1..Len(KindOrder)}
                   \cup {<<StmtText(KindOrder[r], n), r, n>> :
                             r \in 1..Len(KindOrder), n \in 1..MaxId}
    IN  [a \in {e[1] : e \in entries} |->
            LET e == CHOOSE x \in entries : x[1] = a
            IN  [rank |-> e[2], num |-> e[3]]]

IsItem(a) == a \in DOMAIN Items

\* The place of the item's kind in KindOrder.
Rank(a) == Items[a].rank

\* The submission number of a statement's text, 0 for a header's word.
Num(a) == Items[a].num

\* A statement without its line ends.
Content(stmt) == SelectSeq(stmt.tokens, LAMBDA t : t.type # "EOL")

\* The statements of a tree in document order, headers included.
RECURSIVE StatementsOf(_)
StatementsOf(node) ==
    IF hasattr(node, "tokens")
    THEN <<[type |-> node.type, id |-> node.id, content |-> Content(node)]>>
    ELSE LET RECURSIVE Over(_)
             Over(body) ==
                 IF body = <<>> THEN <<>>
                 ELSE StatementsOf(Head(body)) \o Over(Tail(body))
         IN  StatementsOf(node.header) \o Over(node.body)

RECURSIVE AllStatements(_)
AllStatements(sections) ==
    IF sections = <<>> THEN <<>>
    ELSE StatementsOf(Head(sections)) \o AllStatements(Tail(sections))

IsPrefix(a, b) == Len(a) <= Len(b) /\ SubSeq(b, 1, Len(a)) = a

Range(seq) == {seq[i] : i \in 1..Len(seq)}

RECURSIVE Concat(_)
Concat(seqs) == IF seqs = <<>> THEN <<>> ELSE Head(seqs) \o Concat(Tail(seqs))

StrictlyIncreasing(seq) == \A i, j \in 1..Len(seq) : i < j => seq[i] < seq[j]

\* The tree carries a fatal or a recoverable error marker.
HasErrorMarker(sections) ==
    \E s \in Range(AllStatements(sections)) :
        \E t \in Range(s.content) : t.type \in {"ERROR", "FATAL ERROR"}

\* The last evaluate call has returned, with success false.
Failed == pc = "idle" /\ "success" \in DOMAIN ret /\ ~ret.success

\* The last evaluate call has returned, with success true.
Succeeded == pc = "idle" /\ "success" \in DOMAIN ret /\ ret.success

DocumentIds(dp) == UNION {IF dp[k] = None THEN {} ELSE Ids(dp[k]) : k \in Kinds}

-----------------------------------------------------------------------------
(* C1 *)

\* C1: full_doc shows the populated sections in the order Comment, Settings,
\* Variables, Keywords, TestCases whatever the order they were submitted in,
\* each with its header and all its statements, the statements of a section
\* in the order they were submitted in.
C1_FullDocOrder ==
    LET d     == full_doc
        items == {i \in 1..Len(d) : IsItem(d[i])}
    IN  /\ \A i, j \in items :
              i < j => \/ Rank(d[i]) < Rank(d[j])
                       \/ Rank(d[i]) = Rank(d[j]) /\ Num(d[i]) < Num(d[j])
        /\ \A kind \in Kinds :
              doc_parts[kind] # None =>
                 /\ \E i \in items : d[i] = HeaderWord(kind)
                 /\ \A n \in Ids(doc_parts[kind]) :
                       \E i \in items : d[i] = StmtText(kind, n)

\* A statement submitted later is shown before one submitted earlier.
C1_Witness ==
    /\ pc = "idle"
    /\ \E i, j \in 1..Len(full_doc) :
          /\ i < j
          /\ IsItem(full_doc[i]) /\ IsItem(full_doc[j])
          /\ Num(full_doc[j]) > 0
          /\ Num(full_doc[i]) > Num(full_doc[j])

-----------------------------------------------------------------------------
(* C2 *)

\* C2: an accumulator, once created, stays the same node, and the statements
\* it held before a step are the first of the statements it holds after it.
C2_AppendOnly ==
    [][\A kind \in Kinds :
          doc_parts[kind] # None =>
             /\ doc_parts'[kind] # None
             /\ doc_parts'[kind].header = doc_parts[kind].header
             /\ IsPrefix(StatementsOf(doc_parts[kind]), StatementsOf(doc_parts'[kind]))]_vars

\* A successful call has added statements to an accumulator that existed.
C2_Witness ==
    /\ Succeeded
    /\ \E kind \in Kinds :
          /\ pre.doc_parts[kind] # None
          /\ Len(StatementsOf(doc_parts[kind])) > Len(StatementsOf(pre.doc_parts[kind]))

-----------------------------------------------------------------------------
(* C3 *)

\* C3: a call that returned success false has left the document and the block
\* mode as they were when it started.
C3_FailureLeavesSelf == Failed => Self = pre

-----------------------------------------------------------------------------
(* C4 *)

\* C4: a call whose parsed tree carries an error marker fails, and full_doc,
\* the current section kind and the current block prefix stay as they were
\* when it started.
C4_ValidationFailureLeavesSelf ==
    (calls > 0 /\ HasErrorMarker(last_model)) =>
        /\ full_doc = compute_full_doc(pre.doc_parts, "")
        /\ last_section_name = pre.last_section_name
        /\ last_block_mode = pre.last_block_mode
        /\ pc = "idle" => Failed

\* A fragment with an error marker has been refused by a session that holds
\* a document.
C4_Witness ==
    /\ Failed
    /\ HasErrorMarker(last_model)
    /\ full_doc # <<>>

-----------------------------------------------------------------------------
(* C5 *)

\* C5: a step that returns from compute_evaluate_text changes neither the
\* document nor the block mode nor the namespace, and the same call in the
\* state it leaves returns the same value.
C5_ComputeIsPure ==
    [][(text_ret' # None /\ text_ret' # text_ret) =>
          /\ doc_parts' = doc_parts
          /\ last_section_name' = last_section_name
          /\ last_block_mode' = last_block_mode
          /\ namespace' = namespace
          /\ text_ret'.ret =
                compute_evaluate_text(
                    [doc_parts |-> doc_parts', last_section_name |-> last_section_name',
                     last_block_mode |-> last_block_mode'],
                    text_ret'.code, text_ret'.target_type)]_vars

\* A completion was asked for a bare code while the current section had history.
C5_Witness ==
    /\ text_ret # None
    /\ text_ret.target_type = "completions"
    /\ ~startswith(strip(text_ret.code), <<"***">>)
    /\ doc_parts[last_section_name] # None

-----------------------------------------------------------------------------
(* C6 *)

OneLine(chunk) ==
    /\ chunk # <<>>
    /\ chunk[Len(chunk)] = "\n"
    /\ \A i \in 1..(Len(chunk) - 1) : chunk[i] # "\n"

\* C6: evaluate returns a dict whatever happens: success with no message, or
\* failure with "Error while evaluating: " and the exception's text, the
\* trace having gone to on_stderr one line at a time; result is None always.
C6_EvaluateReturns ==
    /\ (pc = "idle" /\ calls > 0) =>
          /\ DOMAIN ret = {"success", "message", "result"}
          /\ ret.result = None
          /\ ret.success => ret.message = None
          /\ ~ret.success => startswith(ret.message, <<"Error while evaluating: ">>)
    /\ (pc = "finally" /\ frame.exc # NoExc) =>
          /\ frame.result =
                [success |-> FALSE,
                 message |-> <<"Error while evaluating: ">> \o frame.exc.text,
                 result |-> None]
          /\ \A i \in 1..Len(on_stderr) : OneLine(on_stderr[i])
          /\ Concat(on_stderr) = format_exc(frame.exc)
    /\ (pc = "finally" /\ frame.exc = NoExc /\ frame.model # <<>>) =>
          frame.result = [success |-> TRUE, message |-> None, result |-> None]

\* An exception of the merge has been caught.
C6_Witness == pc = "finally" /\ frame.exc.type = "AttributeError"

-----------------------------------------------------------------------------
(* C7 *)

\* C7: outside evaluate the console streams are the ones from before the
\* first call, on whatever path the last call ended; they are the capturing
\* streams exactly while a call is in progress.
C7_StreamsRestored ==
    /\ pc = "idle" => sys_stdout = "console stdout" /\ sys_stderr = "console stderr"
    /\ pc # "idle" => sys_stdout = "_stdout" /\ sys_stderr = "_stderr"

\* A call that caught an exception has returned, after an earlier call.
C7_Witness == Failed /\ calls > 1 /\ Len(on_stderr) > 1

-----------------------------------------------------------------------------
(* C8 *)

\* C8: a step that runs statements runs statements of the fragment of the
\* call in progress, in document order, none of which ran before and none of
\* which is in the document that the earlier calls built.
C8_AtMostOnce ==
    [][executed' # executed =>
          /\ IsPrefix(executed, executed')
          /\ StrictlyIncreasing(executed')
          /\ \A i \in (Len(executed) + 1)..Len(executed') :
                /\ executed'[i] \in TreeIds(last_model)
                /\ executed'[i] \notin Range(executed)
                /\ executed'[i] \notin DocumentIds(pre.doc_parts)]_vars

\* The second call ran a test body while the document held an earlier one.
C8_Witness ==
    /\ calls > 1
    /\ pre.doc_parts["TestCaseSection"] # None
    /\ Len(executed) > 1
    /\ executed[Len(executed)] \in TreeIds(last_model)

-----------------------------------------------------------------------------
(* C9 *)

\* The bodies of the test cases of the TestCases sections of a model, in order.
RECURSIVE NewTestBodies(_)
NewTestBodies(sections) ==
    IF sections = <<>> THEN <<>>
    ELSE (IF Head(sections).type = "TestCaseSection"
          THEN Concat([i \in 1..Len(Head(sections).body) |->
                          AllStatements(Head(sections).body[i].body)])
          ELSE <<>>) \o NewTestBodies(Tail(sections))

LastEntry(section) == section.body[Len(section.body)]

\* C9: the TestCases accumulator keeps the entries it was created with; a
\* successful merge into it puts the new test bodies, in order, behind the
\* body of its last entry; and while only bare statements were submitted it
\* is one test, the default one, that holds the statements in the order they
\* were submitted in, the last of them being that of the last success.
C9_OneGrowingTest ==
    [][LET old == doc_parts["TestCaseSection"]
           new == doc_parts'["TestCaseSection"]
       IN  /\ old # None =>
                 /\ new # None
                 /\ Len(new.body) = Len(old.body)
                 /\ \A i \in 1..Len(old.body) :
                       hasattr(old.body[i], "header") =>
                          /\ hasattr(new.body[i], "header")
                          /\ new.body[i].header = old.body[i].header
           /\ (old # None /\ pc = "merge" /\ pc' = "finally") =>
                 IF hasattr(LastEntry(old), "body")
                 THEN AllStatements(LastEntry(new).body) =
                         AllStatements(LastEntry(old).body) \o NewTestBodies(last_model)
                 ELSE new = old
           /\ (bare_only' /\ new # None) =>
                 /\ Len(new.body) = 1
                 /\ Content(new.body[1].header)[1].value = <<"Default Task/Test">>
                 /\ Len(SelectSeq(compute_full_doc(doc_parts', ""),
                                  LAMBDA a : a = "Default Task/Test")) = 1
                 /\ StrictlyIncreasing([i \in 1..Len(new.body[1].body) |->
                                           new.body[1].body[i].id])
                 /\ (pc' = "idle" /\ "success" \in DOMAIN ret' /\ ret'.success) =>
                       LastEntry(new.body[1]).id \in TreeIds(last_model')]_vars

\* Two bare statements are under the one default test.
C9_Witness ==
    /\ Succeeded
    /\ bare_only
    /\ calls > 1
    /\ doc_parts["TestCaseSection"] # None
    /\ Len(doc_parts["TestCaseSection"].body) = 1
    /\ Len(doc_parts["TestCaseSection"].body[1].body) > 1

-----------------------------------------------------------------------------
(* C10 *)

\* C10: what compute_evaluate_text returns has full_code = prefix + code.
C10_FullCodeIsPrefixPlusCode ==
    text_ret # None => text_ret.ret.full_code = text_ret.ret.prefix \o text_ret.code

-----------------------------------------------------------------------------
(* C11 *)

\* C11: no step takes an import, a variable or a keyword handler out of the
\* namespace: what it held before the step are the first of what it holds
\* after it, in calls that succeed and in calls that fail alike.
C11_NamespaceGrows ==
    [][\A field \in {"imports", "variables", "keywords"} :
          IsPrefix(namespace[field], namespace'[field])]_vars

\* A test body runs in a fragment without imports while the namespace holds
\* an import of an earlier call, which failed (nothing of it was merged).
C11_Witness ==
    /\ pc = "tests"
    /\ calls > 1
    /\ Collect(last_model, "SettingSection", "LibraryImport") = <<>>
    /\ namespace.imports # <<>>
    /\ namespace.imports = entry.namespace.imports
    /\ doc_parts["SettingSection"] = None

-----------------------------------------------------------------------------
(* C12 *)

-----------------------------------------------------------------------------
(* C13 *)

\* The last statement of a tree: the last child, down to one with tokens.
RECURSIVE TrailingLeaf(_)
TrailingLeaf(node) ==
    IF hasattr(node, "tokens") THEN node ELSE TrailingLeaf(node.body[Len(node.body)])

\* The text ends with a line break, and with one only.
EndsWithOneLineBreak(text) ==
    /\ text # <<>>
    /\ text[Len(text)] = "\n"
    /\ Len(text) > 1 => text[Len(text) - 1] # "\n"

\* C13: after a call that merged, the last statement of every accumulator a
\* section with a body was merged into ends with exactly one line break.
C13_OneTrailingLineBreak ==
    Succeeded =>
        \A i \in 1..Len(last_model) :
            last_model[i].body # <<>> =>
                EndsWithOneLineBreak(
                    TokensText(TrailingLeaf(doc_parts[last_model[i].type]).tokens))

-----------------------------------------------------------------------------
(* C14 *)

\* The error markers of a statement.
Markers(stmt, type) == SelectSeq(stmt.content, LAMBDA t : t.type = type)

\* The statements of a tree that carry an error marker, in document order.
Marked(sections) ==
    SelectSeq(AllStatements(sections),
              LAMBDA st : Markers(st, "FATAL ERROR") # <<>> \/ Markers(st, "ERROR") # <<>>)

\* The marker that decides: of the first statement marked, the first fatal
\* marker, or else the first recoverable one.
Deciding(sections) ==
    LET first == Marked(sections)[1]
    IN  IF Markers(first, "FATAL ERROR") # <<>>
        THEN Markers(first, "FATAL ERROR")[1]
        ELSE Markers(first, "ERROR")[1]

\* C14: when validation raises, the error is the one of the first marked
\* statement in document order (its first fatal marker, or else its first
\* recoverable marker), and its message holds the source label, the line of
\* the marker and the marker's text; the tree alone determines it.
C14_FirstMarkerWins ==
    (pc \in {"except", "finally"} /\ Marked(frame.model) # <<>>) =>
        LET t       == Deciding(frame.model)
            message == <<"Error in file '">> \o frame.code
                          \o <<"' on line ", ToString(t.lineno), ": ">> \o t.error
        IN  /\ frame.exc = Exception("DataError", message)
            /\ pc = "finally" =>
                  frame.result.message = <<"Error while evaluating: ">> \o message

\* Validation raised for a tree with two marked statements, the first one
\* with recoverable markers only, the second one with a fatal marker.
C14_Witness ==
    /\ pc = "except"
    /\ Len(Marked(frame.model)) > 1
    /\ Markers(Marked(frame.model)[1], "FATAL ERROR") = <<>>
    /\ Markers(Marked(frame.model)[2], "FATAL ERROR") # <<>>

-----------------------------------------------------------------------------
(* C15 *)

\* The numbers of the statements of the given type in the fragment of the
\* last call.
FragmentIds(type) ==
    {st.id : st \in {x \in Range(AllStatements(last_model)) : x.type = type}}

\* The imports, the variables and the keywords of the fragment are in the namespace.
ImportsApplied   == FragmentIds("LibraryImport") \subseteq Range(namespace.imports)
VariablesApplied == FragmentIds("Variable") \subseteq Range(namespace.variables)
KeywordsApplied  == FragmentIds("KeywordName") \subseteq Range(namespace.keywords)

\* C15: within a call, a variable is bound only once all the imports of the
\* fragment are done, a keyword registered only once its variables are bound
\* too, a test body run only once its keywords are registered too, and the
\* document changed only once all its test bodies have run; so a call that
\* a test body made fail has applied the fragment's imports, variables and
\* keywords.
C15_DispatchOrder ==
    [][/\ namespace'.variables # namespace.variables => ImportsApplied
       /\ namespace'.keywords # namespace.keywords => ImportsApplied /\ VariablesApplied
       /\ executed' # executed =>
             ImportsApplied /\ VariablesApplied /\ KeywordsApplied
       /\ doc_parts' # doc_parts =>
             /\ ImportsApplied /\ VariablesApplied /\ KeywordsApplied
             /\ Range(Concat(Tests(last_model))) \subseteq Range(executed)
       /\ (pc = "except" /\ frame.exc.type = "ExecutionFailed") =>
             ImportsApplied /\ VariablesApplied /\ KeywordsApplied]_vars

\* A test body failed in a fragment that has an import, a variable and a keyword.
C15_Witness ==
    /\ pc = "except"
    /\ frame.exc.type = "ExecutionFailed"
    /\ FragmentIds("LibraryImport") # {}
    /\ FragmentIds("Variable") # {}
    /\ FragmentIds("KeywordName") # {}

-----------------------------------------------------------------------------
(* C16 *)

\* The imports the fragment of the last call declares, in document order.
Declared ==
    LET imports == SelectSeq(AllStatements(last_model), LAMBDA st : st.type = "LibraryImport")
    IN  [i \in 1..Len(imports) |-> imports[i].id]

ImportFailed == <<"Error while evaluating: ", "Importing failed.">>

\* C16: a call past its imports has added every import the fragment declares
\* to the namespace, in order; a call that an import made fail returns
\* success false with the message of that one error, its trace sent once, and
\* the namespace holds the imports done before the failing one (all of them,
\* and none of those declared after it), while no
\* variable, keyword, test body or section of the fragment took effect.
C16_ImportFailure ==
    /\ (pc \in {"variables", "keywords", "tests", "merge"} \/ Succeeded) =>
          namespace.imports = entry.namespace.imports \o Declared
    /\ (pc \in {"except", "finally"} /\ frame.exc.text = <<"Importing failed.">>) =>
          LET done == Len(Declared) - Len(frame.new_suite.imports)
          IN  /\ done < Len(Declared)
              /\ namespace.imports = entry.namespace.imports \o SubSeq(Declared, 1, done)
    /\ (Failed /\ ret.message = ImportFailed) =>
          /\ \E k \in 0..(Len(Declared) - 1) :
                namespace.imports = entry.namespace.imports \o SubSeq(Declared, 1, k)
          /\ namespace.variables = entry.namespace.variables
          /\ namespace.keywords = entry.namespace.keywords
          /\ executed = entry.executed
          /\ doc_parts = pre.doc_parts
          /\ on_stderr = splitlines(format_exc(Exception("DataError", <<"Importing failed.">>)))

\* The second import of a fragment failed: the first one stays.
C16_Witness ==
    /\ Failed
    /\ ret.message = ImportFailed
    /\ Len(namespace.imports) > Len(entry.namespace.imports)

-----------------------------------------------------------------------------
(* C17 *)

NoSections == <<"Unable to interpret: no sections found.">>

\* C17: a call whose fragment has no section or carries an error marker does
\* no import, sets no variable, adds no keyword, runs no test body and merges
\* nothing, from its start to its return; with no section, on_stderr got the
\* one message and nothing else, the result is the failure with that
\* message, and a further call can start.
C17_ValidationFirst ==
    /\ (calls > 0 /\ (last_model = <<>> \/ HasErrorMarker(last_model))) =>
          /\ namespace = entry.namespace
          /\ executed = entry.executed
          /\ doc_parts = pre.doc_parts
          /\ pc \in {"validate", "except", "finally", "idle"}
          /\ pc = "idle" => Failed
    /\ (calls > 0 /\ last_model = <<>>) =>
          /\ on_stderr = <<NoSections>>
          /\ pc \in {"finally", "idle"}
          /\ pc = "idle" =>
                /\ ret = ActionResult(FALSE, <<"Error while evaluating: ">> \o NoSections)
                /\ calls < MaxEvals => ENABLED Evaluate

\* A fragment with an import and an error marker has failed, after a call
\* that did an import: the namespace holds that one import.
C17_Witness ==
    /\ Failed
    /\ calls > 1
    /\ HasErrorMarker(last_model)
    /\ FragmentIds("LibraryImport") # {}
    /\ namespace.imports # <<>>

-----------------------------------------------------------------------------
(* C18 *)

DefaultTestHeader ==
    <<"***", " ", "Test Case", " ", "***", "\n", "Default Task/Test", "\n",
      " ", " ", " ", " ">>

\* C18: the current section kind is TestCases and the current block prefix
\* the default test header, in every state; on_stderr never gets the warning
\* of the unknown block mode; and a bare fragment is parsed behind the
\* default test header, as the body of the default test.
C18_AlwaysTestCases ==
    /\ last_section_name = "TestCaseSection"
    /\ last_block_mode = DefaultTestHeader
    /\ \A i \in 1..Len(on_stderr) : on_stderr[i][1] # "Unable to find block mode for: "
    /\ (pc # "idle" /\ ~startswith(strip(entry.code), <<"***">>)) =>
          /\ frame.code = DefaultTestHeader \o entry.code
          /\ Len(frame.model) = 1
          /\ frame.model[1].type = "TestCaseSection"
          /\ Len(frame.model[1].body) = 1
          /\ TokensText(frame.model[1].body[1].header.tokens) = <<"Default Task/Test", "\n">>

\* A call has succeeded whose fragment ends with a section of another kind.
C18_Witness ==
    /\ Succeeded
    /\ last_model # <<>>
    /\ last_model[Len(last_model)].type # "TestCaseSection"

-----------------------------------------------------------------------------
(* C19 *)

\* The whitespace that the last line of a text starts with.
LastLineIndent(text) == LeadingWhitespace(rpartition(text, "\n")[3])

\* C19: the prefix compute_evaluate_text returns for completions is the full
\* document and a line break when the code opens a section; the full
\* document, a line break and the block mode when the code is bare and the
\* current section has no accumulator; and otherwise the document rendered
\* with the current section last, a line break, and the indentation of the
\* last line of that rendering.
C19_CompletionsPrefix ==
    (text_ret # None /\ text_ret.target_type = "completions") =>
        LET prefix   == text_ret.ret.prefix
            rendered == compute_full_doc(doc_parts, last_section_name)
        IN  IF startswith(strip(text_ret.code), <<"***">>)
            THEN prefix = full_doc \o <<"\n">>
            ELSE IF doc_parts[last_section_name] = None
            THEN prefix = full_doc \o <<"\n">> \o last_block_mode
            ELSE prefix = rendered \o <<"\n">> \o LastLineIndent(rendered)

-----------------------------------------------------------------------------
(* C20 *)

\* C20: the text a call parses is the full_code that compute_evaluate_text
\* gives for the call's code and the target "evaluate" in the state the call
\* started in: the code itself, with an empty prefix, when it opens a
\* section, and else the block mode of that state followed by the code.
C20_ParsedTextIsFullCode ==
    pc # "idle" =>
        LET r == compute_evaluate_text(pre, entry.code, "evaluate")
        IN  /\ frame.code = r.full_code
            /\ IF startswith(strip(entry.code), <<"***">>)
               THEN r.prefix = <<>> /\ frame.code = entry.code
               ELSE r.prefix = pre.last_block_mode
                    /\ frame.code = pre.last_block_mode \o entry.code

\* A call that opens a section is in progress, after a call with a bare statement.
C20_Witness ==
    /\ pc = "validate"
    /\ calls > 1
    /\ startswith(strip(entry.code), <<"***">>)
    /\ frame.model # <<>>
    /\ pre.doc_parts["TestCaseSection"] # None

====
